---- MODULE Spec2Model ----
(***************************************************************************)
(* Crawl-control model of burgerbae_mapped2.py: the link classifier        *)
(* (is_internal_link over urlparse(..).netloc), the fingerprint            *)
(* (hash_url), the graph accumulator (graph_edges, a defaultdict(set)),    *)
(* the extraction log writer (append_to_csv), and the crawl loop of        *)
(* crawl_site followed by the __main__ hand-off to draw_crawl_graph.       *)
(*                                                                         *)
(* A URL string is a sequence of lexical tokens ("https:", "/", a host,    *)
(* a path segment, "[" ...), so that urlparse is computed on the text      *)
(* rather than read off a field.                                           *)
(***************************************************************************)
EXTENDS Integers, Sequences, FiniteSets, Bags, TLC

\* ---------------------------------------------------------------- bounds
\* Page budget of the model runs (the shipped configuration sets 20).
MAX_PAGES == 2
\* Largest number of a[href] elements a rendered page yields.
MaxAnchors == 2
\* Longest token string given to the classifier in SpecClassifier.
MaxTokens == 4
\* Largest number of img[src] elements given to append_to_csv in SpecLog.
MaxImages == 2

\* ---------------------------------------------------------------- URLs
HOST == "www.burgerbaeclothing.com"
OTHER_HOST == "other.com"

START_URL == <<"https:", "/", "/", HOST, "/">>
URL_A == <<"https:", "/", "/", HOST, "/", "a">>
URL_B == <<"https:", "/", "/", HOST, "/", "b">>
URL_EXT == <<"https:", "/", "/", OTHER_HOST, "/">>
URL_BAD == <<"https:", "/", "/", "[", OTHER_HOST>>

\* The addresses e.href can yield on the modelled site.
Hrefs == {START_URL, URL_A, URL_B, URL_EXT, URL_BAD}

\* Lexical alphabet of the classifier's inputs.  No token is a prefix of
\* another, so a token sequence and the string it spells determine each other.
SchemeTokens == {"https:", "mailto:"}
SchemeCharTokens == {HOST, OTHER_HOST, "a", "b", "c"}
Tokens == {"https:", "/", HOST, OTHER_HOST, "["}

RECURSIVE SeqsUpTo(_, _)
SeqsUpTo(S, n) ==
    IF n = 0 THEN {<<>>}
    ELSE LET shorter == SeqsUpTo(S, n - 1)
         IN shorter \cup {Append(s, x) : s \in {t \in shorter : Len(t) = n - 1}, x \in S}

InSeq(x, s) == \E i \in 1..Len(s) : s[i] = x

\* ---------------------------------------------------------------- urlparse
\* urlsplit: the text before the first ":" is a scheme when it is made of
\* scheme characters only; the scheme and its colon are then cut off.
StripScheme(u) ==
    LET colons == {i \in 1..Len(u) : u[i] \in SchemeTokens}
    IN IF colons = {} THEN u
       ELSE LET i == CHOOSE k \in colons : \A j \in colons : k <= j
            IN IF \A j \in 1..(i - 1) : u[j] \in SchemeCharTokens
               THEN SubSeq(u, i + 1, Len(u))
               ELSE u

\* _splitnetloc: the authority runs from after "//" to the first "/".
RECURSIVE UpToSlash(_)
UpToSlash(s) ==
    IF s = <<>> \/ Head(s) = "/" THEN <<>>
    ELSE <<Head(s)>> \o UpToSlash(Tail(s))

urlparse_netloc(u) ==
    LET rest == StripScheme(u)
    IN IF Len(rest) >= 2 /\ rest[1] = "/" /\ rest[2] = "/"
       THEN UpToSlash(SubSeq(rest, 3, Len(rest)))
       ELSE <<>>

\* urlsplit raises ValueError("Invalid IPv6 URL") on an unbalanced bracket.
urlparse_raises(u) ==
    InSeq("[", urlparse_netloc(u)) /\ ~InSeq("]", urlparse_netloc(u))

\* ---------------------------------------------------------------- helpers
is_internal_link_always(base_url, link_url) == "True"

is_internal_link(base_url, link_url) ==
    IF urlparse_raises(base_url) \/ urlparse_raises(link_url) THEN "ValueError"
    ELSE IF urlparse_netloc(base_url) = urlparse_netloc(link_url) THEN "True"
    ELSE "False"

\* The list comprehension of extract_internal_links raises as soon as one
\* classification raises; otherwise it keeps the in-scope links in order.
extract_raises(base_url, links) ==
    \E i \in 1..Len(links) : is_internal_link(base_url, links[i]) = "ValueError"

extract_internal_links(base_url, links) ==
    SelectSeq(links, LAMBDA l : is_internal_link(base_url, l) = "True")

\* sha256 of the exact string: a fingerprint, distinct per distinct string.
hash_url(u) == <<"sha256", u>>

\* ---------------------------------------------------------------- containers
list_append(edges, e) == edges (+) SetToBag({e})

\* set.add on the defaultdict(set) entry: an element already present is
\* not added again.  graph_edges is kept as the bag of recorded (src, dst)
\* pairs, so a second copy of an edge would be visible.
set_add(edges, e) == IF BagIn(e, edges) THEN edges ELSE edges (+) SetToBag({e})

appendleft(q, x) == <<x>> \o q

\* deque.append
append(q, x) == Append(q, x)

RECURSIVE LinkLoop_edge_if_new(_, _, _, _, _)
LinkLoop_edge_if_new(new_links, src, vis, q, edges) ==
    IF new_links = <<>> THEN [queue |-> q, graph_edges |-> edges]
    ELSE LET link == Head(new_links)
         IN LinkLoop_edge_if_new(Tail(new_links), src, vis,
                     IF hash_url(link) \notin vis THEN append(q, link) ELSE q,
                     IF hash_url(link) \notin vis
                     THEN set_add(edges, <<src, link>>) ELSE edges)

\* for link in new_links: graph_edges[url].add(link);
\*                        if hash_url(link) not in visited: queue.append(link)
RECURSIVE LinkLoop(_, _, _, _, _)
LinkLoop(new_links, src, vis, q, edges) ==
    IF new_links = <<>> THEN [queue |-> q, graph_edges |-> edges]
    ELSE LET link == Head(new_links)
         IN LinkLoop(Tail(new_links), src, vis,
                     IF hash_url(link) \notin vis THEN append(q, link) ELSE q,
                     set_add(edges, <<src, link>>))

\* history bookkeeping: the order in which URLs first entered the deque
RECURSIVE NoteEnqueued(_, _, _)
NoteEnqueued(new_links, vis, disc) ==
    IF new_links = <<>> THEN disc
    ELSE LET link == Head(new_links)
         IN NoteEnqueued(Tail(new_links), vis,
                         IF hash_url(link) \notin vis /\ ~InSeq(link, disc)
                         THEN Append(disc, link) ELSE disc)

\* ---------------------------------------------------------------- state
VARIABLES
    pc,          \* "loop" | "try" | "idle" | "timeout" | "closing" | "except"
                 \* | "returned" | "drawn" | "classify" | "append_to_csv" | "appended"
    visited,     \* set of fingerprints
    queue,       \* the deque
    graph_edges, \* bag of <<src, dst>>
    url,         \* the URL of the iteration in progress
    new_links,   \* the local of line 140; nothing reads it after line 144,
                 \* and it is cleared when control leaves page.close()
    page,        \* the local of line 122: "unbound", or the state of the
                 \* page it refers to, "open" | "closed"
    csv_pages,   \* the page URLs that have rows in the extraction log
    attempts,    \* history: URLs handed to page processing, in order
    discovered,  \* history: URLs in order of first enqueue
    filtered_out,\* history: anchor targets extract_internal_links dropped
    cls_base,    \* is_internal_link under test: base_url
    cls_link,    \*                               link_url
    cls_result,  \*                               "pending" or what the call did
    csv_exists,  \* append_to_csv under test: os.path.exists(csv_path)
    csv_file,    \*                            rows of the file
    csv_url,     \*                            page_url
    csv_images,  \*                            images
    csv_links    \*                            links

crawl == <<visited, queue, graph_edges, url, new_links, page, csv_pages,
           attempts, discovered, filtered_out>>
cls == <<cls_base, cls_link, cls_result>>
csv == <<csv_exists, csv_file, csv_url, csv_images, csv_links>>
vars == <<pc, crawl, cls, csv>>

NoURL == <<>>

\* what a[href] may return for one rendered page
AnchorLists == SeqsUpTo(Hrefs, MaxAnchors)

\* the statements of the try block that can raise before the network wait
NavStages == {"new_page", "goto"}

\* the statements after the network wait that can raise before the link
\* loop; "writerow" is a raise inside append_to_csv after the first row
BodyStages == {"content", "save_html", "extract_images_and_links",
               "append_to_csv", "writerow", "extract_internal_links"}

PreLinkStages == NavStages \cup BodyStages

\* the stages reached only after append_to_csv wrote rows of the page
RowsWrittenStages == {"writerow", "extract_internal_links"}

\* pc after wait_for_load_state returned ("idle") or raised and was caught
\* by the inner except clause ("timeout")
Settled == {"idle", "timeout"}

Range(s) == {s[i] : i \in 1..Len(s)}

\* new_links = extract_internal_links(start_url, page), tabulated once for
\* every list a[href] can return: whether classification raises, the links
\* kept, and the targets dropped as out of scope
Classified ==
    [links \in AnchorLists |->
        [raises |-> extract_raises(START_URL, links),
         new_links |-> extract_internal_links(START_URL, links),
         dropped |-> {l \in Range(links) : is_internal_link(START_URL, l) = "False"}]]

InitCrawl ==
    /\ visited = {}
    /\ queue = <<START_URL>>
    /\ graph_edges = EmptyBag
    /\ url = NoURL
    /\ new_links = <<>>
    /\ page = "unbound"
    /\ csv_pages = {}
    /\ attempts = <<>>
    /\ discovered = <<START_URL>>
    /\ filtered_out = {}

InitCls ==
    /\ cls_base = START_URL
    /\ cls_link = START_URL
    /\ cls_result = "pending"

InitCsv ==
    /\ csv_exists = FALSE
    /\ csv_file = <<>>
    /\ csv_url = START_URL
    /\ csv_images = <<>>
    /\ csv_links = <<>>

Init ==
    /\ pc = "loop"
    /\ InitCrawl
    /\ InitCls
    /\ InitCsv

LoopCond_nobudget == queue # <<>>

\* while queue and len(visited) < MAX_PAGES
LoopCond == queue # <<>> /\ Cardinality(visited) < MAX_PAGES

DequeueVisited_nopop ==
    /\ pc = "loop"
    /\ LoopCond
    /\ hash_url(Head(queue)) \in visited
    /\ UNCHANGED vars

DequeueVisited_break ==
    /\ pc = "loop"
    /\ LoopCond
    /\ hash_url(Head(queue)) \in visited
    /\ queue' = Tail(queue)
    /\ pc' = "returned"
    /\ UNCHANGED <<visited, graph_edges, url, new_links, page,
                   csv_pages, attempts, discovered, filtered_out, cls, csv>>

\* url = queue.popleft(); if hash_url(url) in visited: continue
DequeueVisited ==
    /\ pc = "loop"
    /\ LoopCond
    /\ hash_url(Head(queue)) \in visited
    /\ queue' = Tail(queue)
    /\ UNCHANGED <<pc, visited, graph_edges, url, new_links, page,
                   csv_pages, attempts, discovered, filtered_out, cls, csv>>

DequeueNew_nocheck ==
    /\ pc = "loop"
    /\ LoopCond
    /\ queue' = Tail(queue)
    /\ url' = Head(queue)
    /\ attempts' = Append(attempts, Head(queue))
    /\ pc' = "try"
    /\ UNCHANGED <<visited, graph_edges, new_links, page, csv_pages,
                   discovered, filtered_out, cls, csv>>

\* url = queue.popleft(); not visited: enter the try block
DequeueNew ==
    /\ pc = "loop"
    /\ LoopCond
    /\ hash_url(Head(queue)) \notin visited
    /\ queue' = Tail(queue)
    /\ url' = Head(queue)
    /\ attempts' = Append(attempts, Head(queue))
    /\ pc' = "try"
    /\ UNCHANGED <<visited, graph_edges, new_links, page, csv_pages,
                   discovered, filtered_out, cls, csv>>

\* lines 122-127: new_page and goto return; wait_for_load_state returns
\* (idle) or raises, and the inner except clause prints and goes on
Navigate(idle) ==
    /\ pc = "try"
    /\ page' = "open"
    /\ pc' = IF idle THEN "idle" ELSE "timeout"
    /\ UNCHANGED <<visited, queue, graph_edges, url, new_links, csv_pages,
                   attempts, discovered, filtered_out, cls, csv>>

LinksAndMark_reset(links) ==
    /\ ~Classified[links].raises
    /\ new_links' = Classified[links].new_links
    /\ LET r == LinkLoop(new_links', url, visited, queue, graph_edges)
       IN /\ queue' = r.queue
          /\ graph_edges' = r.graph_edges
          /\ discovered' = NoteEnqueued(new_links', visited, discovered)
    /\ filtered_out' = filtered_out \cup Classified[links].dropped
    /\ visited' = {hash_url(url)}

LinksAndMark_nomark(links) ==
    /\ ~Classified[links].raises
    /\ new_links' = Classified[links].new_links
    /\ LET r == LinkLoop(new_links', url, visited, queue, graph_edges)
       IN /\ queue' = r.queue
          /\ graph_edges' = r.graph_edges
          /\ discovered' = NoteEnqueued(new_links', visited, discovered)
    /\ filtered_out' = filtered_out \cup Classified[links].dropped
    /\ visited' = visited

\* lines 140-146: classify, record edges, enqueue, mark visited
LinksAndMark(links) ==
    /\ ~Classified[links].raises
    /\ new_links' = Classified[links].new_links
    /\ LET r == LinkLoop(new_links', url, visited, queue, graph_edges)
       IN /\ queue' = r.queue
          /\ graph_edges' = r.graph_edges
          /\ discovered' = NoteEnqueued(new_links', visited, discovered)
    /\ filtered_out' = filtered_out \cup Classified[links].dropped
    /\ visited' = visited \cup {hash_url(url)}

PageOK_idle_only(links) ==
    /\ pc = "idle"
    /\ csv_pages' = csv_pages \cup {url}
    /\ LinksAndMark(links)
    /\ pc' = "closing"
    /\ UNCHANGED <<url, page, attempts, cls, csv>>

\* lines 129-146 run to visited.add; links is what a[href] returned.  The
\* page is queried twice, at line 137 for the log and at line 140 for the
\* classifier, one statement apart: both queries return the same list.
PageOK(links) ==
    /\ pc \in Settled
    /\ csv_pages' = csv_pages \cup {url}
    /\ LinksAndMark(links)
    /\ pc' = "closing"
    /\ UNCHANGED <<url, page, attempts, cls, csv>>

PageRaises_abort(stage) ==
    /\ \/ pc = "try" /\ stage \in NavStages
       \/ pc \in Settled /\ stage \in BodyStages
    /\ pc' = "returned"
    /\ UNCHANGED <<crawl, cls, csv>>

PageRaises_marks(stage) ==
    /\ \/ pc = "try" /\ stage \in NavStages
       \/ pc \in Settled /\ stage \in BodyStages
    /\ page' = IF stage = "goto" THEN "open" ELSE page
    /\ csv_pages' = IF stage \in RowsWrittenStages
                    THEN csv_pages \cup {url} ELSE csv_pages
    /\ visited' = visited \cup {hash_url(url)}
    /\ pc' = "except"
    /\ UNCHANGED <<queue, graph_edges, url, new_links, attempts,
                   discovered, filtered_out, cls, csv>>

\* a statement before the link loop raises: control goes to the except
\* clause.  The page stays open when new_page had returned, and the rows
\* already written stay in the file.
PageRaises(stage) ==
    /\ \/ pc = "try" /\ stage \in NavStages
       \/ pc \in Settled /\ stage \in BodyStages
    /\ page' = IF stage = "goto" THEN "open" ELSE page
    /\ csv_pages' = IF stage \in RowsWrittenStages
                    THEN csv_pages \cup {url} ELSE csv_pages
    /\ pc' = "except"
    /\ UNCHANGED <<visited, queue, graph_edges, url, new_links, attempts,
                   discovered, filtered_out, cls, csv>>

\* urlparse raises inside extract_internal_links on one of the anchors,
\* after append_to_csv wrote the rows of the page
ClassifyRaises(links) ==
    /\ pc \in Settled
    /\ Classified[links].raises
    /\ csv_pages' = csv_pages \cup {url}
    /\ pc' = "except"
    /\ UNCHANGED <<visited, queue, graph_edges, url, new_links, page,
                   attempts, discovered, filtered_out, cls, csv>>

\* page.close() returns; back to the while head
PageClose ==
    /\ pc = "closing"
    /\ page' = "closed"
    /\ pc' = "loop"
    /\ url' = NoURL
    /\ new_links' = <<>>
    /\ UNCHANGED <<visited, queue, graph_edges, csv_pages, attempts,
                   discovered, filtered_out, cls, csv>>

\* page.close() raises: everything before it, visited.add included, has run
CloseRaises ==
    /\ pc = "closing"
    /\ pc' = "except"
    /\ new_links' = <<>>
    /\ UNCHANGED <<visited, queue, graph_edges, url, page, csv_pages,
                   attempts, discovered, filtered_out, cls, csv>>

Except_clears ==
    /\ pc = "except"
    /\ pc' = "loop"
    /\ url' = NoURL
    /\ new_links' = <<>>
    /\ queue' = <<>>
    /\ UNCHANGED <<visited, graph_edges, page, csv_pages,
                   attempts, discovered, filtered_out, cls, csv>>

\* except Exception as e: print(...); back to the while head
Except ==
    /\ pc = "except"
    /\ pc' = "loop"
    /\ url' = NoURL
    /\ new_links' = <<>>
    /\ UNCHANGED <<visited, queue, graph_edges, page, csv_pages,
                   attempts, discovered, filtered_out, cls, csv>>

\* the while condition is false; browser.close() closes every page that is
\* still open; crawl_site returns
LoopExit ==
    /\ pc = "loop"
    /\ ~LoopCond
    /\ page' = IF page = "open" THEN "closed" ELSE page
    /\ pc' = "returned"
    /\ UNCHANGED <<visited, queue, graph_edges, url, new_links, csv_pages,
                   attempts, discovered, filtered_out, cls, csv>>

\* __main__: draw_crawl_graph(graph_edges, ...)
DrawGraph ==
    /\ pc = "returned"
    /\ pc' = "drawn"
    /\ UNCHANGED <<crawl, cls, csv>>

Next ==
    \/ DequeueVisited
    \/ DequeueNew
    \/ \E idle \in BOOLEAN : Navigate(idle)
    \/ \E links \in AnchorLists : PageOK(links)
    \/ \E stage \in PreLinkStages : PageRaises(stage)
    \/ \E links \in AnchorLists : ClassifyRaises(links)
    \/ PageClose
    \/ CloseRaises
    \/ Except
    \/ LoopExit
    \/ DrawGraph

Spec == Init /\ [][Next]_vars

\* Every statement returns or raises, so control stays at no program point
\* for ever.  Before the link loop the try block is left by PageRaises at
\* the least, which is enabled at "try", "idle" and "timeout" and leaves
\* all three; page.close() returns or raises.  Weak fairness of PageRaises
\* and of PageClose says no more than that these program points are left,
\* by whichever action.
LiveSpec ==
    /\ Spec
    /\ WF_vars(DequeueVisited)
    /\ WF_vars(DequeueNew)
    /\ WF_vars(\E stage \in PreLinkStages : PageRaises(stage))
    /\ WF_vars(PageClose)
    /\ WF_vars(Except)
    /\ WF_vars(LoopExit)
    /\ WF_vars(DrawGraph)

\* ---------------------------------------------------------------- classifier alone
\* is_internal_link applied to every pair of a base and a candidate string
ClassifierBases == {START_URL, URL_EXT, URL_BAD, <<"mailto:", HOST>>}
ClassifierLinks == SeqsUpTo(Tokens, MaxTokens)

InitClassifier ==
    /\ pc = "classify"
    /\ InitCrawl
    /\ InitCsv
    /\ cls_base \in ClassifierBases
    /\ cls_link \in ClassifierLinks
    /\ cls_result = "pending"

Classify ==
    /\ pc = "classify"
    /\ cls_result = "pending"
    /\ cls_result' = is_internal_link(cls_base, cls_link)
    /\ UNCHANGED <<pc, crawl, cls_base, cls_link, csv>>

NextClassifier == Classify

SpecClassifier == InitClassifier /\ [][NextClassifier]_vars

\* ---------------------------------------------------------------- extraction log alone
\* append_to_csv applied to every page URL, image list and anchor list, on a
\* missing file and on a file left by an earlier call
IMG_1 == <<"https:", "/", "/", HOST, "/", "logo.png">>
IMG_2 == <<"https:", "/", "/", OTHER_HOST, "/", "banner.png">>
Imgs == {IMG_1, IMG_2}
ImageLists == SeqsUpTo(Imgs, MaxImages)

\* the empty string of a column left blank
EMPTY == <<>>

HEADER == <<"Page URL", "Image SRC", "Link HREF">>

RECURSIVE ImageRows(_, _)
ImageRows(page_url, images) ==
    IF images = <<>> THEN <<>>
    ELSE <<<<page_url, Head(images), EMPTY>>>> \o ImageRows(page_url, Tail(images))

RECURSIVE LinkRows(_, _)
LinkRows(page_url, links) ==
    IF links = <<>> THEN <<>>
    ELSE <<<<page_url, EMPTY, Head(links)>>>> \o LinkRows(page_url, Tail(links))

append_to_csv_internal(exists, file, page_url, images, links) ==
    file \o (IF exists THEN <<>> ELSE <<HEADER>>)
         \o ImageRows(page_url, images)
         \o LinkRows(page_url,
                     SelectSeq(links, LAMBDA l : is_internal_link(START_URL, l) = "True"))

\* open(csv_path, "a"): the header when the file is new, then one row for
\* every image and one row for every anchor target
append_to_csv(exists, file, page_url, images, links) ==
    file \o (IF exists THEN <<>> ELSE <<HEADER>>)
         \o ImageRows(page_url, images)
         \o LinkRows(page_url, links)

\* the files an earlier call can have left
PriorFiles == {append_to_csv(FALSE, <<>>, START_URL, <<>>, <<>>),
               append_to_csv(FALSE, <<>>, START_URL, <<IMG_1>>, <<URL_A>>)}

InitLog ==
    /\ pc = "append_to_csv"
    /\ InitCrawl
    /\ InitCls
    /\ csv_exists \in BOOLEAN
    /\ csv_file \in (IF csv_exists THEN PriorFiles ELSE {<<>>})
    /\ csv_url \in {START_URL, URL_A}
    /\ csv_images \in ImageLists
    /\ csv_links \in AnchorLists

AppendToCsv ==
    /\ pc = "append_to_csv"
    /\ csv_file' = append_to_csv(csv_exists, csv_file, csv_url, csv_images, csv_links)
    /\ csv_exists' = TRUE
    /\ pc' = "appended"
    /\ UNCHANGED <<crawl, cls, csv_url, csv_images, csv_links>>

NextLog == AppendToCsv

SpecLog == InitLog /\ [][NextLog]_vars

\* ---------------------------------------------------------------- properties
LoopEnded == pc \in {"returned", "drawn"}

\* the program points of the try block
InTry == {"try", "idle", "timeout", "closing"}

AttemptedURLs == Range(attempts)

\* the first occurrences of a sequence, in order
RECURSIVE FirstOccurrences(_)
FirstOccurrences(s) ==
    IF s = <<>> THEN <<>>
    ELSE LET front == SubSeq(s, 1, Len(s) - 1)
             x == s[Len(s)]
         IN IF InSeq(x, front) THEN FirstOccurrences(front)
            ELSE Append(FirstOccurrences(front), x)

IsPrefix(s, t) == Len(s) <= Len(t) /\ SubSeq(t, 1, Len(s)) = s

EdgeSet == BagToSet(graph_edges)

InScope(u) ==
    /\ ~urlparse_raises(u)
    /\ urlparse_netloc(u) = urlparse_netloc(START_URL)

\* C1: no URL fingerprint is handed to page processing more than once
\* in a run.
C1_NoDuplicateVisits ==
    \A i, j \in 1..Len(attempts) :
        hash_url(attempts[i]) = hash_url(attempts[j]) => i = j

\* C2: when processing of the dequeued URL raises, its fingerprint is in the
\* visited set once the iteration is over.
C2_FailedMarkedVisited ==
    [][(pc = "except" /\ pc' = "loop") => hash_url(url) \in visited']_vars

\* C3: the visited set never holds more than MAX_PAGES fingerprints, and
\* from a state where it holds MAX_PAGES nothing more is dequeued: the deque
\* and the list of attempted URLs stay as they are.
C3_BudgetBound ==
    /\ [](Cardinality(visited) <= MAX_PAGES)
    /\ [][Cardinality(visited) = MAX_PAGES
            => queue' = queue /\ attempts' = attempts]_vars

C3_Witness ==
    /\ pc = "drawn"
    /\ Cardinality(visited) = MAX_PAGES
    /\ queue # <<>>

\* C4: when the loop has ended on the budget (the visited set is full), the
\* number of distinct URLs that were handed to page processing is MAX_PAGES.
C4_ExactlyBudgetAttempted ==
    (LoopEnded /\ Cardinality(visited) = MAX_PAGES)
        => Cardinality(AttemptedURLs) = MAX_PAGES

\* C5: a raising page never ends the loop.  A try block that does not run
\* to its end goes to the except clause, which returns to the loop head, and
\* every pending deque entry is kept; the loop is left only with the deque
\* empty or the budget reached; and a page that runs to its end is marked
\* visited whatever failed before it.
C5_FailureIsolation ==
    /\ [][(pc \in InTry /\ pc' \notin InTry \cup {"loop"})
            => pc' = "except" /\ IsPrefix(queue, queue')]_vars
    /\ [][pc = "except" => pc' = "loop" /\ queue' = queue]_vars
    /\ [](LoopEnded => (queue = <<>> \/ Cardinality(visited) = MAX_PAGES))
    /\ [][(pc \in InTry /\ pc' = "loop") => hash_url(url) \in visited']_vars

\* a page failed and was never visited; a page attempted after it is
\* visited and has outgoing edges
C5_Witness ==
    \E i, j \in 1..Len(attempts) :
        /\ i < j
        /\ hash_url(attempts[i]) \notin visited
        /\ hash_url(attempts[j]) \in visited
        /\ \E e \in EdgeSet : e[1] = attempts[j]

C7_ScopeFiltering ==
    /\ \A i \in 1..Len(queue) : InScope(queue[i])
    /\ \A e \in EdgeSet : InScope(e[1]) /\ InScope(e[2])

\* a page listing the off-site address ran through classification and
\* contributed edges
C7_Witness ==
    /\ URL_EXT \in filtered_out
    /\ EdgeSet # {}
    /\ queue # <<>>

\* C8: every run reaches the hand-off to the graph renderer, and the loop
\* is left only with the deque empty or the visited set full.
C8_Terminates ==
    <>(pc = "drawn" /\ (queue = <<>> \/ Cardinality(visited) = MAX_PAGES))

C8_Witness ==
    /\ pc = "drawn"
    /\ \E i \in 1..Len(attempts) : hash_url(attempts[i]) \notin visited
    /\ \E i \in 1..Len(attempts), j \in 1..Len(attempts) :
          i # j /\ attempts[i] = attempts[j]

\* C9: CrawlGraph holds every recorded (source, destination) pair once.
C9_EdgeOnce ==
    \A e \in EdgeSet : CopiesIn(e, graph_edges) = 1

\* the seed page listed A twice: two deque entries, one edge
C9_Witness ==
    /\ attempts = <<START_URL>>
    /\ queue = <<URL_A, URL_A>>
    /\ CopiesIn(<<START_URL, URL_A>>, graph_edges) = 1

ProtocolRelative(u) == Len(u) >= 2 /\ u[1] = "/" /\ u[2] = "/"

\* C10: is_internal_link answers True only for two parsable addresses of
\* equal authority, answers False (never raises) when an address does not
\* parse, and never answers True for a protocol-relative candidate.
C10_FailsClosed ==
    cls_result # "pending" =>
        /\ cls_result = "True" =>
              /\ ~urlparse_raises(cls_base) /\ ~urlparse_raises(cls_link)
              /\ urlparse_netloc(cls_base) = urlparse_netloc(cls_link)
        /\ (urlparse_raises(cls_base) \/ urlparse_raises(cls_link))
              => cls_result = "False"
        /\ ProtocolRelative(cls_link) => cls_result # "True"

\* C11: append_to_csv adds to the extraction log one row (page URL, image,
\* "") for every image source and then one row (page URL, "", target) for
\* every anchor target, in scope or not, in order and with duplicates kept;
\* the rows already in the file stay, and a new file gets the header first.
C11_LogRows ==
    [][(pc = "append_to_csv" /\ pc' = "appended") =>
        LET added == SubSeq(csv_file', Len(csv_file) + 1, Len(csv_file'))
            body == IF csv_exists THEN added ELSE Tail(added)
        IN /\ IsPrefix(csv_file, csv_file')
           /\ ~csv_exists => Head(added) = HEADER
           /\ Len(body) = Len(csv_images) + Len(csv_links)
           /\ \A i \in 1..Len(csv_images) :
                 body[i] = <<csv_url, csv_images[i], EMPTY>>
           /\ \A j \in 1..Len(csv_links) :
                 body[Len(csv_images) + j] = <<csv_url, EMPTY, csv_links[j]>>]_vars

\* a page with the same image twice and the off-site address twice: four
\* rows after the header, the last one for the off-site address
C11_Witness ==
    /\ pc = "appended"
    /\ csv_images = <<IMG_1, IMG_1>>
    /\ csv_links = <<URL_EXT, URL_EXT>>
    /\ Len(csv_file) = 5
    /\ csv_file[4] = <<csv_url, EMPTY, URL_EXT>>
    /\ csv_file[5] = <<csv_url, EMPTY, URL_EXT>>

\* C12: the visited set and the crawl graph only grow: no step removes a
\* fingerprint, an edge or a source key.
C12_Monotone ==
    [][/\ visited \subseteq visited'
       /\ \A e \in EdgeSet : BagIn(e, graph_edges')
       /\ {e[1] : e \in EdgeSet} \subseteq {e[1] : e \in BagToSet(graph_edges')}]_vars

\* both have grown twice: two pages visited, each the source of an edge
C12_Witness ==
    /\ Cardinality(visited) = 2
    /\ Cardinality({e[1] : e \in EdgeSet}) = 2
    /\ LoopEnded

\* C13: when the link loop of page u has run, there is an edge from u to
\* every in-scope link found on u, visited or not; the deque has grown by
\* exactly the found links whose fingerprint was not in the visited set, in
\* order; and the fingerprint of u, and nothing else, has joined the
\* visited set.
C13_LinkLoop ==
    [][(pc \in Settled /\ pc' = "closing") =>
        /\ \A l \in Range(new_links') : InScope(l) /\ BagIn(<<url, l>>, graph_edges')
        /\ \A e \in BagToSet(graph_edges') : e \in EdgeSet \/
              (e[1] = url /\ e[2] \in Range(new_links'))
        /\ queue' = queue \o SelectSeq(new_links', LAMBDA l : hash_url(l) \notin visited)
        /\ visited' = visited \cup {hash_url(url)}]_vars

\* page A lists the seed, which is visited, and B, which is not: both get
\* an edge and only B is enqueued
C13_Witness ==
    /\ pc = "closing"
    /\ url = URL_A
    /\ new_links = <<START_URL, URL_B>>
    /\ BagIn(<<URL_A, START_URL>>, graph_edges)
    /\ BagIn(<<URL_A, URL_B>>, graph_edges)
    /\ queue = <<URL_B>>
    /\ visited = {hash_url(START_URL), hash_url(URL_A)}

\* C14: at every loop head no page opened by an earlier iteration is still
\* open: the page of an iteration is closed by the end of that iteration,
\* whether its processing ran to the end or raised.
C14_PageReleased ==
    pc = "loop" => page # "open"

\* C15: at no reachable state does the deque hold a URL whose fingerprint
\* is in the visited set.
C15_NoVisitedInFrontier ==
    \A i \in 1..Len(queue) : hash_url(queue[i]) \notin visited

\* C15, amended: no URL is appended to the deque while its fingerprint is in
\* the visited set, and no URL is handed to page processing while its
\* fingerprint is in the visited set; an entry enqueued before its URL was
\* marked visited can stay in the deque, and is discarded when it is dequeued.
C15_NoVisitedEnqueuedOrProcessed ==
    [][/\ \A i \in (Len(queue) + 1)..Len(queue') : hash_url(queue'[i]) \notin visited
       /\ (pc = "loop" /\ pc' = "try") => hash_url(url') \notin visited
       /\ (pc = "loop" /\ LoopCond /\ hash_url(Head(queue)) \in visited)
             => (pc' = "loop" /\ queue' = Tail(queue) /\ attempts' = attempts)]_vars

\* the seed page listed itself and A: the seed is visited and its own entry
\* is at the head of the deque; the next state has only A left
C15_Witness ==
    /\ pc = "loop"
    /\ attempts = <<START_URL>>
    /\ visited = {hash_url(START_URL)}
    /\ queue = <<START_URL, URL_A>>

\* C16: dequeuing a URL whose fingerprint is in the visited set removes the
\* head of the deque and nothing else: no page is opened and nothing is
\* handed to page processing, the visited set (so the budget count), the
\* graph, the extraction log and the rest of the deque stay as they are,
\* and control is back at the loop head.
C16_SkipFrame ==
    [][(pc = "loop" /\ LoopCond /\ hash_url(Head(queue)) \in visited) =>
        /\ queue' = Tail(queue)
        /\ pc' = "loop"
        /\ UNCHANGED <<visited, graph_edges, csv_pages, attempts, page, url>>]_vars

\* the seed page listed itself: its own entry was dequeued and discarded,
\* the deque is empty after one attempt
C16_Witness ==
    /\ pc = "loop"
    /\ BagIn(<<START_URL, START_URL>>, graph_edges)
    /\ attempts = <<START_URL>>
    /\ queue = <<>>
    /\ Cardinality(visited) = 1

\* C17: a timeout of the network-idle wait is not a failure of the page.
\* After it the rest of the try block can run exactly as after a wait that
\* returned, and when it does the rows of the page are in the extraction
\* log, the found links have their edges and deque entries, and the URL is
\* marked visited.
C17_IdleTimeoutNotFatal ==
    /\ [](pc = "timeout" => ENABLED (\E links \in AnchorLists : PageOK(links)))
    /\ [][(pc = "timeout" /\ pc' # "closing") => pc' = "except" /\ visited' = visited]_vars
    /\ [][(pc = "timeout" /\ pc' = "closing") =>
            /\ url \in csv_pages'
            /\ \A l \in Range(new_links') : BagIn(<<url, l>>, graph_edges')
            /\ queue' = queue \o SelectSeq(new_links', LAMBDA l : hash_url(l) \notin visited)
            /\ hash_url(url) \in visited']_vars

\* navigation of page A returned and the wait timed out; the page is open
\* and about to be processed
C17_Witness ==
    /\ pc = "timeout"
    /\ url = URL_A
    /\ page = "open"
    /\ visited = {hash_url(START_URL)}

\* C18: when the try block raises at or before link extraction (new_page,
\* goto, content, save_html, the DOM queries, append_to_csv,
\* extract_internal_links), the iteration has changed nothing of the crawl
\* control state after the removal of the dequeued head: no fingerprint has
\* joined the visited set, no edge the graph, no entry the deque.
C18_FailureFrame ==
    [][(pc \in {"try"} \cup Settled /\ pc' = "except")
          => UNCHANGED <<visited, graph_edges, queue>>]_vars

\* page A raised in extract_internal_links after its rows were logged: it
\* is not visited, has no outgoing edge, and the entry of B is still pending
C18_Witness ==
    /\ pc = "except"
    /\ url = URL_A
    /\ URL_A \in csv_pages
    /\ hash_url(URL_A) \notin visited
    /\ \A e \in EdgeSet : e[1] # URL_A
    /\ queue = <<URL_B>>

C20_SourcesVisitedNoFailedSource ==
    [][pc' = "loop" =>
        /\ \A e \in BagToSet(graph_edges') : hash_url(e[1]) \in visited'
        /\ pc = "except" => \A e \in BagToSet(graph_edges') : e[1] # url]_vars

\* C20, amended: at every loop head every source of a recorded edge has its
\* fingerprint in the visited set, and a page whose processing raised at or
\* before link extraction has no outgoing edge; a page whose page.close()
\* raised keeps the edges it recorded and is visited.
C20_SourcesVisited ==
    /\ [](pc = "loop" => \A e \in EdgeSet : hash_url(e[1]) \in visited)
    /\ [][(pc \in {"try"} \cup Settled /\ pc' = "except")
            => \A e \in BagToSet(graph_edges') : e[1] # url]_vars
    /\ [][(pc = "closing" /\ pc' = "except")
            => graph_edges' = graph_edges /\ hash_url(url) \in visited']_vars

\* page.close() raised for the seed page after it had listed A: at the loop
\* head the page is still open, the seed is visited and is the source of
\* the edge to A
C20_Witness ==
    /\ pc = "loop"
    /\ page = "open"
    /\ attempts = <<START_URL>>
    /\ visited = {hash_url(START_URL)}
    /\ BagIn(<<START_URL, URL_A>>, graph_edges)

====
